---- MODULE Spec2Model ----
(***************************************************************************)
(* The cancer-prediction HTTP service of src/app.py: the handlers index,   *)
(* predict, get_patients and train_model, the predictions table they use,  *)
(* and the pure function get_recommendations.                              *)
(***************************************************************************)
EXTENDS Integers, Sequences, FiniteSets, TLC

VARIABLES
    table,      \* committed rows of the predictions table, in insertion order
    submitted,  \* history: submitted[i] is the request body that produced table[i]
    startRows,  \* rows the table held when the service started (init_db keeps them)
    openConns,  \* database connections opened and not closed
    req,        \* the last request: handler and body
    resp,       \* the last response: handler, status, error, payload
    calls,      \* history: the collaborators the last request invoked, in order
    raised,     \* history: the exception raised inside the last handler's try block
    seen        \* history: per risk level, the result of the last direct lookup

vars == <<table, submitted, startRows, openConns, req, resp, calls, raised, seen>>

-----------------------------------------------------------------------------
(* Bounds of the model *)

MaxNewRows == 1
MaxLeaked == 1
SeedRows == 100

(* LIMIT 100 of the SELECT in get_patients *)
ListLimit == 100

-----------------------------------------------------------------------------
(* JSON values as request.get_json() returns them.  A body is a record      *)
(* [kind, items]; kind "malformed" is a body get_json() raises on, "null"   *)
(* is None (JSON null), "array" a list of scalars, "object" a dict whose    *)
(* items keep insertion order.  An item is [k, t, s]: key (empty in an      *)
(* array), type and the scalar's text.                                      *)

RequiredFields ==
    <<"age", "gender", "smoking", "drinking", "familyHistory", "exerciseFrequency">>

ExtraField == "notes"

Item(k, t, s) == [k |-> k, t |-> t, s |-> s]

SampleItem(k) ==
    CASE k = "age" -> Item(k, "num", "45")
      [] k = "gender" -> Item(k, "str", "F")
      [] k = "smoking" -> Item(k, "bool", "false")
      [] k = "drinking" -> Item(k, "bool", "true")
      [] k = "familyHistory" -> Item(k, "str", "true")
      [] k = "exerciseFrequency" -> Item(k, "str", "low")
      [] OTHER -> Item(k, "str", "45")

AllFields == RequiredFields \o <<ExtraField>>

RECURSIVE Members(_, _)
Members(keys, S) ==
    IF keys = <<>> THEN <<>>
    ELSE (IF Head(keys) \in S THEN <<SampleItem(Head(keys))>> ELSE <<>>)
             \o Members(Tail(keys), S)

RECURSIVE Reverse(_)
Reverse(s) == IF s = <<>> THEN <<>> ELSE Reverse(Tail(s)) \o <<Head(s)>>

Range(s) == {s[i] : i \in DOMAIN s}

Object(items) == [kind |-> "object", items |-> items]
Array(items) == [kind |-> "array", items |-> items]
JsonNull == [kind |-> "null", items |-> <<>>]
Malformed == [kind |-> "malformed", items |-> <<>>]

FullObject == Object(Members(AllFields, Range(RequiredFields)))
FullObjectExtra == Object(Members(AllFields, Range(AllFields)))
FullObjectReversed == Object(Reverse(Members(AllFields, Range(AllFields))))
NamesArray == Array([i \in DOMAIN RequiredFields |-> Item("", "str", RequiredFields[i])])

ObjectBodies == {Object(Members(AllFields, S)) : S \in SUBSET Range(AllFields)}

Bodies ==
    ObjectBodies \cup {FullObjectReversed, NamesArray, Array(<<>>), JsonNull, Malformed}

SmallBodies ==
    {FullObject, FullObjectExtra, FullObjectReversed, NamesArray,
     Object(<<SampleItem("age")>>), JsonNull, Malformed}

SeededBodies == {FullObjectExtra, Object(<<SampleItem("age")>>), JsonNull}

Keys(data) == {data.items[i].k : i \in DOMAIN data.items}

-----------------------------------------------------------------------------
(* json.dumps and json.loads.  The text is a sequence of tokens: a          *)
(* punctuation mark, a quoted string, or a bare literal (number, true,      *)
(* false, null).                                                            *)

Punct(s) == [tok |-> "punct", s |-> s]
Quoted(s) == [tok |-> "str", s |-> s]
Bare(s) == [tok |-> "lit", s |-> s]

ValueTokenUnquoted(item) == Bare(item.s)

ValueToken(item) == IF item.t = "str" THEN Quoted(item.s) ELSE Bare(item.s)

RECURSIVE DumpItems(_, _)
DumpItems(items, isObject) ==
    IF items = <<>> THEN <<>>
    ELSE LET it == Head(items)
             one == IF isObject THEN <<Quoted(it.k), Punct(":"), ValueToken(it)>>
                    ELSE <<ValueToken(it)>>
         IN  one \o (IF Tail(items) = <<>> THEN <<>> ELSE <<Punct(",")>>)
                 \o DumpItems(Tail(items), isObject)

Dumps(data) ==
    CASE data.kind = "object" -> <<Punct("{")>> \o DumpItems(data.items, TRUE) \o <<Punct("}")>>
      [] data.kind = "array" -> <<Punct("[")>> \o DumpItems(data.items, FALSE) \o <<Punct("]")>>
      [] OTHER -> <<Bare("null")>>

DecodeError == [kind |-> "error", items |-> <<>>]

TokenItem(k, token) ==
    IF token.tok = "str" THEN Item(k, "str", token.s)
    ELSE IF token.s \in {"true", "false"} THEN Item(k, "bool", token.s)
    ELSE Item(k, "num", token.s)

IsValueToken(token) == token.tok = "str" \/ (token.tok = "lit" /\ token.s # "null")

(* The items of text[i..] up to the closing mark; <<FALSE>> on a syntax error *)
RECURSIVE LoadItems(_, _, _, _)
LoadItems(text, i, isObject, acc) ==
    LET close == IF isObject THEN Punct("}") ELSE Punct("]")
        width == IF isObject THEN 3 ELSE 1
    IN  IF i + width > Len(text) THEN <<FALSE>>
        ELSE LET wellFormed ==
                     IF isObject
                     THEN /\ text[i].tok = "str"
                          /\ text[i + 1] = Punct(":")
                          /\ IsValueToken(text[i + 2])
                     ELSE IsValueToken(text[i])
                 item == IF isObject THEN TokenItem(text[i].s, text[i + 2])
                         ELSE TokenItem("", text[i])
                 next == text[i + width]
             IN  IF ~wellFormed THEN <<FALSE>>
                 ELSE IF next = close
                      THEN IF i + width = Len(text) THEN <<TRUE, Append(acc, item)>>
                           ELSE <<FALSE>>
                 ELSE IF next = Punct(",")
                      THEN LoadItems(text, i + width + 1, isObject, Append(acc, item))
                 ELSE <<FALSE>>

LoadContainer(text, isObject) ==
    LET close == IF isObject THEN Punct("}") ELSE Punct("]")
        make(items) == IF isObject THEN Object(items) ELSE Array(items)
    IN  IF Len(text) = 2
        THEN IF text[2] = close THEN make(<<>>) ELSE DecodeError
        ELSE LET r == LoadItems(text, 2, isObject, <<>>)
             IN  IF r[1] THEN make(r[2]) ELSE DecodeError

Loads(text) ==
    IF text = <<>> THEN DecodeError
    ELSE IF text = <<Bare("null")>> THEN JsonNull
    ELSE IF Len(text) < 2 THEN DecodeError
    ELSE IF Head(text) = Punct("{") THEN LoadContainer(text, TRUE)
    ELSE IF Head(text) = Punct("[") THEN LoadContainer(text, FALSE)
    ELSE DecodeError

-----------------------------------------------------------------------------
(* get_recommendations *)

LowRecommendations ==
    <<"Continue regular health checkups",
      "Maintain healthy lifestyle",
      "Annual screening recommended">>

MediumRecommendations ==
    <<"Schedule consultation with oncologist",
      "Consider additional screening tests",
      "Monitor symptoms closely",
      "Lifestyle modifications recommended">>

HighRecommendations ==
    <<"Immediate consultation with oncologist required",
      "Comprehensive diagnostic workup needed",
      "Consider genetic counseling",
      "Frequent monitoring essential">>

GetRecommendationsDefaultLow(risk_level) ==
    CASE risk_level = "Medium" -> MediumRecommendations
      [] risk_level = "High" -> HighRecommendations
      [] OTHER -> LowRecommendations

GetRecommendationsShared(risk_level) ==
    IF resp.handler = "predict" /\ resp.status = 200
    THEN resp.payload.recommendations
    ELSE CASE risk_level = "Low" -> LowRecommendations
           [] risk_level = "Medium" -> MediumRecommendations
           [] risk_level = "High" -> HighRecommendations
           [] OTHER -> <<>>

GetRecommendations(risk_level) ==
    CASE risk_level = "Low" -> LowRecommendations
      [] risk_level = "Medium" -> MediumRecommendations
      [] risk_level = "High" -> HighRecommendations
      [] OTHER -> <<>>

-----------------------------------------------------------------------------
(* Collaborators outside src/: the prediction adapter, the clock, the       *)
(* database driver and the training routine, as the values and failures     *)
(* they hand to the handlers.                                               *)

Scored(score, level, confidence) ==
    [ok |-> TRUE, risk_score |-> score, risk_level |-> level, confidence |-> confidence]

AdapterFailure == [ok |-> FALSE, risk_score |-> 0, risk_level |-> "", confidence |-> 0]

AdapterOutcomes ==
    {Scored(12, "Low", 90), Scored(55, "Medium", 70), Scored(91, "High", 80),
     Scored(55, "Critical", 70), AdapterFailure}

SmallAdapterOutcomes == {Scored(12, "Low", 90), Scored(91, "High", 80), AdapterFailure}

TinyAdapterOutcomes == {Scored(12, "Low", 90), AdapterFailure}

RiskLevels == {"Low", "Medium", "High", "Critical", ""}

ClockValues == {0, 1, 2}

PredictFailures ==
    {"none", "connect", "cursor", "execute", "commit", "cursor_close", "conn_close"}

ListFailures ==
    {"none", "connect", "cursor", "execute", "fetchall", "cursor_close", "conn_close"}

TieOrders == {"asc", "desc"}

TrainOutcomes == {"ok", "import_error", "train_error"}

-----------------------------------------------------------------------------
(* Responses *)

Response(handler, status, error, payload) ==
    [handler |-> handler, status |-> status, error |-> error, payload |-> payload]

Request(handler, body) == [handler |-> handler, body |-> body]

NoBody == [kind |-> "none", items |-> <<>>]

(* What a try block hands to its handler: a response (exc = "") or an       *)
(* exception, with the calls made, whether a row was committed and whether  *)
(* the connection it opened is still open.                                  *)
Returned(status, error, payload, made, committed) ==
    [exc |-> "", status |-> status, error |-> error, payload |-> payload,
     calls |-> made, committed |-> committed, open |-> FALSE]

Raised(exc, made, committed, open) ==
    [exc |-> exc, status |-> 0, error |-> "", payload |-> <<>>,
     calls |-> made, committed |-> committed, open |-> open]

-----------------------------------------------------------------------------
(* predict *)

(* field in data *)
Contains(data, field) ==
    IF data.kind = "object" THEN field \in Keys(data)
    ELSE \E i \in DOMAIN data.items : data.items[i].t = "str" /\ data.items[i].s = field

RECURSIVE FirstMissingReversed(_, _)
FirstMissingReversed(fields, data) ==
    IF fields = <<>> THEN ""
    ELSE IF ~Contains(data, fields[Len(fields)]) THEN fields[Len(fields)]
    ELSE FirstMissingReversed(SubSeq(fields, 1, Len(fields) - 1), data)

RECURSIVE FirstMissing(_, _)
FirstMissing(fields, data) ==
    IF fields = <<>> THEN ""
    ELSE IF ~Contains(data, Head(fields)) THEN Head(fields)
    ELSE FirstMissing(Tail(fields), data)

PredictPipeline ==
    <<"get_json", "predict_cancer_risk", "get_db_connection", "cursor", "execute",
      "commit", "cursor.close", "conn.close", "get_recommendations", "jsonify">>

Upto(n) == SubSeq(PredictPipeline, 1, n)

InsertReplacing(rows, row) ==
    IF rows = <<>> THEN <<row>> ELSE [rows EXCEPT ![Len(rows)] = row]

(* INSERT INTO predictions ... and conn.commit() *)
Insert(rows, row) == Append(rows, row)

NewRow(id, data, out, now) ==
    [id |-> id, patient_data |-> Dumps(data), risk_score |-> out.risk_score,
     risk_level |-> out.risk_level, confidence |-> out.confidence, created_at |-> now]

PredictPayload(out) ==
    [riskScore |-> out.risk_score, riskLevel |-> out.risk_level,
     confidence |-> out.confidence,
     recommendations |-> GetRecommendations(out.risk_level)]

(* The try block of predict *)
PredictTry(data, out, fail) ==
    IF data.kind = "malformed" THEN Raised("BadRequest", Upto(1), FALSE, FALSE)
    ELSE IF data.kind = "null" THEN Raised("TypeError", Upto(1), FALSE, FALSE)
    ELSE IF FirstMissing(RequiredFields, data) # ""
    THEN Returned(400, "Missing required field: " \o FirstMissing(RequiredFields, data),
                  <<>>, Upto(1), FALSE)
    ELSE IF ~out.ok THEN Raised("AdapterError", Upto(2), FALSE, FALSE)
    ELSE IF fail = "connect" THEN Raised("DatabaseError", Upto(3), FALSE, FALSE)
    ELSE IF fail = "cursor" THEN Raised("DatabaseError", Upto(4), FALSE, TRUE)
    ELSE IF fail = "execute" THEN Raised("DatabaseError", Upto(5), FALSE, TRUE)
    ELSE IF fail = "commit" THEN Raised("DatabaseError", Upto(6), FALSE, TRUE)
    ELSE IF fail = "cursor_close" THEN Raised("DatabaseError", Upto(7), TRUE, TRUE)
    ELSE IF fail = "conn_close" THEN Raised("DatabaseError", Upto(8), TRUE, TRUE)
    ELSE Returned(200, "", PredictPayload(out), Upto(10), TRUE)

PredictExceptLeaky(r) ==
    IF r.exc = "" THEN Response("predict", r.status, r.error, r.payload)
    ELSE Response("predict", 500, "Internal server error: " \o r.exc, <<>>)

(* except Exception of predict *)
PredictExcept(r) ==
    IF r.exc = "" THEN Response("predict", r.status, r.error, r.payload)
    ELSE Response("predict", 500, "Internal server error", <<>>)

Predict(data, out, now, fail) ==
    LET r == PredictTry(data, out, fail)
    IN  /\ r.committed => Len(table) < startRows + MaxNewRows
        /\ r.open => openConns < MaxLeaked
        /\ table' = IF r.committed
                    THEN Insert(table, NewRow(Len(table) + 1, data, out, now))
                    ELSE table
        /\ submitted' = IF r.committed THEN Append(submitted, data) ELSE submitted
        /\ openConns' = IF r.open THEN openConns + 1 ELSE openConns
        /\ req' = Request("predict", data)
        /\ resp' = PredictExcept(r)
        /\ calls' = r.calls
        /\ raised' = r.exc
        /\ UNCHANGED <<startRows, seen>>

-----------------------------------------------------------------------------
(* get_patients *)

BeforeAscending(a, b, tie) ==
    \/ a.created_at < b.created_at
    \/ /\ a.created_at = b.created_at
       /\ IF tie = "asc" THEN a.id < b.id ELSE a.id > b.id

(* ORDER BY created_at DESC; rows of equal created_at come in either id order *)
Before(a, b, tie) ==
    \/ a.created_at > b.created_at
    \/ /\ a.created_at = b.created_at
       /\ IF tie = "asc" THEN a.id < b.id ELSE a.id > b.id

Min(a, b) == IF a < b THEN a ELSE b

(* ... LIMIT 100 *)
SelectRecent(rows, tie) ==
    LET sorted == SortSeq(rows, LAMBDA a, b : Before(a, b, tie))
    IN  SubSeq(sorted, 1, Min(Len(sorted), ListLimit))

(* datetime.isoformat() of the stored timestamp *)
IsoFormat(t) == "2024-01-01T00:00:0" \o ToString(t)

ListItem(row) ==
    [id |-> row.id, patient_data |-> Loads(row.patient_data),
     risk_score |-> row.risk_score, risk_level |-> row.risk_level,
     confidence |-> row.confidence, created_at |-> IsoFormat(row.created_at)]

ListPipeline ==
    <<"get_db_connection", "cursor", "execute", "fetchall", "json.loads",
      "cursor.close", "conn.close", "jsonify">>

ListUpto(n) == SubSeq(ListPipeline, 1, n)

(* The try block of get_patients *)
GetPatientsTry(rows, fail, tie) ==
    LET predictions == SelectRecent(rows, tie)
        items == [i \in DOMAIN predictions |-> ListItem(predictions[i])]
    IN  IF fail = "connect" THEN Raised("DatabaseError", ListUpto(1), FALSE, FALSE)
        ELSE IF fail = "cursor" THEN Raised("DatabaseError", ListUpto(2), FALSE, TRUE)
        ELSE IF fail = "execute" THEN Raised("DatabaseError", ListUpto(3), FALSE, TRUE)
        ELSE IF fail = "fetchall" THEN Raised("DatabaseError", ListUpto(4), FALSE, TRUE)
        ELSE IF \E i \in DOMAIN items : items[i].patient_data = DecodeError
        THEN Raised("JSONDecodeError", ListUpto(5), FALSE, TRUE)
        ELSE IF fail = "cursor_close" THEN Raised("DatabaseError", ListUpto(6), FALSE, TRUE)
        ELSE IF fail = "conn_close" THEN Raised("DatabaseError", ListUpto(7), FALSE, TRUE)
        ELSE Returned(200, "", items,
                      IF items = <<>> THEN <<"get_db_connection", "cursor", "execute",
                                             "fetchall", "cursor.close", "conn.close",
                                             "jsonify">>
                      ELSE ListUpto(8), FALSE)

(* except Exception of get_patients *)
GetPatientsExcept(r) ==
    IF r.exc = "" THEN Response("list", r.status, r.error, r.payload)
    ELSE Response("list", 500, "Internal server error", <<>>)

GetPatients(fail, tie) ==
    LET r == GetPatientsTry(table, fail, tie)
    IN  /\ r.open => openConns < MaxLeaked
        /\ openConns' = IF r.open THEN openConns + 1 ELSE openConns
        /\ req' = Request("list", NoBody)
        /\ resp' = GetPatientsExcept(r)
        /\ calls' = r.calls
        /\ raised' = r.exc
        /\ UNCHANGED <<table, submitted, startRows, seen>>

-----------------------------------------------------------------------------
(* train_model *)

TrainModelTry(outcome) ==
    IF outcome = "import_error" THEN Raised("ImportError", <<>>, FALSE, FALSE)
    ELSE IF outcome = "train_error" THEN Raised("TrainingError", <<"train_models">>, FALSE, FALSE)
    ELSE Returned(200, "", [message |-> "Model training completed", results |-> "results"],
                  <<"train_models", "jsonify">>, FALSE)

(* except Exception of train_model *)
TrainModelExcept(r) ==
    IF r.exc = "" THEN Response("train", r.status, r.error, r.payload)
    ELSE Response("train", 500, "Model training failed", <<>>)

TrainModel(outcome) ==
    LET r == TrainModelTry(outcome)
    IN  /\ req' = Request("train", NoBody)
        /\ resp' = TrainModelExcept(r)
        /\ calls' = r.calls
        /\ raised' = r.exc
        /\ UNCHANGED <<table, submitted, startRows, openConns, seen>>

-----------------------------------------------------------------------------
(* index *)

Index ==
    /\ req' = Request("index", NoBody)
    /\ resp' = Response("index", 200, "",
                        [message |-> "Cancer Prediction API", status |-> "running"])
    /\ calls' = <<"jsonify">>
    /\ raised' = ""
    /\ UNCHANGED <<table, submitted, startRows, openConns, seen>>

-----------------------------------------------------------------------------
(* A direct call of get_recommendations *)

NotCalled == [called |-> FALSE, result |-> <<>>]

Lookup(risk_level) ==
    /\ seen' = [seen EXCEPT ![risk_level] =
                    [called |-> TRUE, result |-> GetRecommendations(risk_level)]]
    /\ UNCHANGED <<table, submitted, startRows, openConns, req, resp, calls, raised>>

-----------------------------------------------------------------------------
(* Initial states: an empty predictions table, or one that earlier runs     *)
(* of the service filled.                                                   *)

SeedBody(i) ==
    CASE i % 4 = 0 -> FullObject
      [] i % 4 = 1 -> FullObjectExtra
      [] i % 4 = 2 -> FullObjectReversed
      [] OTHER -> NamesArray

SeedOut(i) ==
    CASE i % 3 = 0 -> Scored(12, "Low", 90)
      [] i % 3 = 1 -> Scored(55, "Medium", 70)
      [] OTHER -> Scored(91, "High", 80)

SeedRow(i) == NewRow(i, SeedBody(i), SeedOut(i), (i * 2) % 3)

InitWith(n) ==
    /\ startRows = n
    /\ table = [i \in 1..n |-> SeedRow(i)]
    /\ submitted = [i \in 1..n |-> SeedBody(i)]
    /\ openConns = 0
    /\ req = Request("none", NoBody)
    /\ resp = Response("none", 0, "", <<>>)
    /\ calls = <<>>
    /\ raised = ""
    /\ seen = [l \in RiskLevels |-> NotCalled]

Init == InitWith(0)

InitSeeded == InitWith(SeedRows)

(* predict with what its collaborators hand it: the adapter's outcome, the  *)
(* clock and the database failure are drawn only when the request reaches   *)
(* them.                                                                    *)
Scores(data) ==
    data.kind \in {"object", "array"} /\ FirstMissing(RequiredFields, data) = ""

PredictRequest(bodies, outcomes, clock) ==
    \E data \in bodies :
        IF Scores(data)
        THEN \E out \in outcomes :
                 IF out.ok
                 THEN \E now \in clock, fail \in PredictFailures :
                          Predict(data, out, now, fail)
                 ELSE Predict(data, out, 0, "none")
        ELSE Predict(data, AdapterFailure, 0, "none")

ListRequest == \E fail \in ListFailures, tie \in TieOrders : GetPatients(fail, tie)

TrainRequest == \E outcome \in TrainOutcomes : TrainModel(outcome)

LookupCall == \E risk_level \in RiskLevels : Lookup(risk_level)

Next ==
    \/ Index
    \/ PredictRequest(SmallBodies, AdapterOutcomes, {0})
    \/ ListRequest
    \/ TrainRequest

Spec == Init /\ [][Next]_vars

NextValidate ==
    \/ Index
    \/ PredictRequest(Bodies, TinyAdapterOutcomes, {0})
    \/ ListRequest
    \/ TrainRequest

SpecValidate == Init /\ [][NextValidate]_vars

NextSeeded ==
    \/ Index
    \/ PredictRequest(SeededBodies, TinyAdapterOutcomes, ClockValues)
    \/ ListRequest
    \/ TrainRequest

SpecSeeded == InitSeeded /\ [][NextSeeded]_vars

NextLookup ==
    \/ Index
    \/ PredictRequest({FullObject, JsonNull}, SmallAdapterOutcomes, {0})
    \/ ListRequest
    \/ TrainRequest
    \/ LookupCall

SpecLookup == Init /\ [][NextLookup]_vars

-----------------------------------------------------------------------------
(* Vocabulary of the properties *)

RequiredSet == Range(RequiredFields)

(* The body is a JSON object holding all six required keys *)
HasAllKeys(data) == data.kind = "object" /\ RequiredSet \subseteq Keys(data)

(* The required keys a parsed body does not hold (all six when it is no object) *)
MissingKeys(data) == IF data.kind = "object" THEN RequiredSet \ Keys(data) ELSE RequiredSet

IsPredict == resp.handler = "predict"

Made(name) == name \in Range(calls)

ExpectedCount(level) ==
    CASE level = "Low" -> 3
      [] level = "Medium" -> 4
      [] level = "High" -> 4
      [] OTHER -> 0

RecommendationsMatch ==
    /\ resp.payload.recommendations = GetRecommendations(resp.payload.riskLevel)
    /\ Len(resp.payload.recommendations) = ExpectedCount(resp.payload.riskLevel)

(* A step of a request handler (every handler writes resp; a direct lookup  *)
(* writes only seen)                                                        *)
HandlerStep(handler) == seen' = seen /\ resp'.handler = handler

-----------------------------------------------------------------------------
(* C1: every predict request whose body lacks at least one of the six       *)
(* required keys, the absent (null) body included, is answered 400 with a   *)
(* message naming a field that is missing from the body.                    *)
C1_MissingFieldIs400 ==
    (IsPredict /\ req.body.kind # "malformed" /\ MissingKeys(req.body) # {})
        => /\ resp.status = 400
           /\ \E f \in MissingKeys(req.body) :
                  resp.error = "Missing required field: " \o f

(* C2 as stated: every predict request whose body holds all six required    *)
(* keys is answered 200 with the fixed recommendation list of the returned  *)
(* riskLevel (3 for Low, 4 for Medium, 4 for High, none otherwise).         *)
C2_AllKeysIs200 ==
    (IsPredict /\ HasAllKeys(req.body))
        => (resp.status = 200 /\ RecommendationsMatch)

(* C2 amended: a predict request whose body holds all six required keys     *)
(* and in which no collaborator fails is answered 200, and every 200        *)
(* response of predict carries the fixed recommendation list of the         *)
(* riskLevel it returns (3 for Low, 4 for Medium, 4 for High, none for any  *)
(* other value).                                                            *)
C2_AllKeysNoFailureIs200 ==
    /\ (IsPredict /\ HasAllKeys(req.body) /\ raised = "") => resp.status = 200
    /\ (IsPredict /\ resp.status = 200) => RecommendationsMatch

C2_Witness ==
    /\ IsPredict /\ HasAllKeys(req.body) /\ resp.status = 200
    /\ resp.payload.riskLevel = "Critical"
    /\ resp.payload.recommendations = <<>>

(* C3: in predict, get_patients and train_model every failure raised in     *)
(* the try block ends in a response of status 500 carrying the handler's    *)
(* fixed message and nothing of the error; every request ends with a        *)
(* response of status 200, 400 or 500.                                      *)
GenericMessage(handler) ==
    IF handler = "train" THEN "Model training failed" ELSE "Internal server error"

C3_FailuresAre500 ==
    /\ resp.handler # "none" => resp.status \in {200, 400, 500}
    /\ raised # "" => /\ resp.handler \in {"predict", "list", "train"}
                      /\ resp.status = 500
                      /\ resp.error = GenericMessage(resp.handler)
                      /\ resp.payload = <<>>

C3_Witness ==
    /\ IsPredict /\ raised = "DatabaseError" /\ Made("commit")
    /\ resp.status = 500 /\ resp.error = "Internal server error"

(* C4: a predict request commits a new row if and only if its response is   *)
(* 200; none answered 400 or 500 leaves a committed row behind.             *)
C4_AllOrNothing ==
    [][HandlerStep("predict") => ((table' # table) <=> (resp'.status = 200))]_vars

-----------------------------------------------------------------------------
IsList == resp.handler = "list" /\ resp.status = 200

(* The stored timestamp an item's created_at text stands for *)
FromIso(text) == CHOOSE t \in ClockValues : IsoFormat(t) = text

ItemIds == {resp.payload[i].id : i \in DOMAIN resp.payload}

C6_RoundTrip ==
    IsList =>
        \A i \in DOMAIN resp.payload :
            resp.payload[i].patient_data = submitted[resp.payload[i].id]

C6_Witness ==
    /\ IsList
    /\ \E i \in DOMAIN resp.payload :
           /\ resp.payload[i].id > startRows
           /\ ExtraField \in Keys(resp.payload[i].patient_data)

(* C7: every predict request answered 200 adds exactly one row; no step of  *)
(* index, predict, list or train changes or removes an existing row, and    *)
(* index, list and train leave the table as it is.                          *)
C7_RowsCreatedOnceImmutable ==
    [][seen' = seen =>
           /\ Len(table') >= Len(table)
           /\ Len(table') <= Len(table) + 1
           /\ SubSeq(table', 1, Len(table)) = table
           /\ (HandlerStep("predict") /\ resp'.status = 200)
                  => Len(table') = Len(table) + 1
           /\ resp'.handler \in {"index", "list", "train"} => table' = table]_vars

C7_Witness == IsPredict /\ resp.status = 200 /\ Len(table) = startRows + 1 /\ startRows > 0

-----------------------------------------------------------------------------
(* C8: get_recommendations returns the same ordered list for the same       *)
(* risk_level on every call, whatever requests and lookups came before,     *)
(* the empty list for any value other than Low, Medium or High, and a call  *)
(* changes nothing of the service's state.                                  *)
C8_LookupIsPure ==
    /\ [](\A l \in RiskLevels :
              (seen[l].called /\ l \notin {"Low", "Medium", "High"})
                  => seen[l].result = <<>>)
    /\ [][\A l \in RiskLevels :
              (seen[l].called /\ seen'[l].called) => seen'[l].result = seen[l].result]_vars
    /\ [][seen' # seen =>
              UNCHANGED <<table, submitted, startRows, openConns, req, resp, calls,
                          raised>>]_vars

C8_Witness ==
    /\ seen["Critical"].called /\ seen["Critical"].result = <<>>
    /\ seen["High"].called /\ Len(seen["High"].result) = 4
    /\ IsPredict /\ resp.status = 200 /\ Len(table) > 0

(* C9: when a predict or list request has produced its response, every      *)
(* connection it opened is closed: no connection is open between requests.  *)
C9_ConnectionsClosed == openConns = 0

-----------------------------------------------------------------------------
(* The first required field, in the fixed order, that the body lacks *)
FirstInOrder(data) ==
    LET missing == {i \in DOMAIN RequiredFields : ~Contains(data, RequiredFields[i])}
    IN  RequiredFields[CHOOSE i \in missing : \A j \in missing : i <= j]

IsPrefix(s, t) == Len(s) <= Len(t) /\ SubSeq(t, 1, Len(s)) = s

(* C10: predict validates, scores, persists, looks up recommendations and   *)
(* responds in that order: a request answered 400 has not called the        *)
(* adapter, opened a connection or inserted a row; one whose adapter call   *)
(* failed has not opened a connection or inserted a row; and the 400        *)
(* message names the first missing field in the fixed order.                *)
C10_PipelineOrder ==
    /\ [](IsPredict =>
              /\ IsPrefix(calls, PredictPipeline)
              /\ resp.status = 400 =>
                     /\ ~Made("predict_cancer_risk")
                     /\ ~Made("get_db_connection")
                     /\ ~Made("execute")
                     /\ resp.error = "Missing required field: " \o FirstInOrder(req.body)
              /\ raised = "AdapterError" =>
                     /\ ~Made("get_db_connection")
                     /\ ~Made("execute")
              /\ resp.status = 200 =>
                     \A n \in Range(PredictPipeline) : Made(n))
    /\ [][(HandlerStep("predict") /\ (resp'.status = 400 \/ raised' = "AdapterError"))
              => (table' = table /\ openConns' = openConns)]_vars

C10_Witness ==
    /\ IsPredict /\ resp.status = 400
    /\ resp.error = "Missing required field: gender"
    /\ {"smoking", "exerciseFrequency"} \subseteq MissingKeys(req.body)

====
